---- MODULE Spec2Model ----
(***************************************************************************)
(* Job Aggregator Bot (src/main.py): load_config, the three Selenium       *)
(* scrapers, aggregate_jobs, is_duplicate, enrich_and_store_jobs, run_bot  *)
(* and main, as one sequential state machine.  Python dicts are functions  *)
(* over their keys, lists are sequences, None is the string "None".        *)
(***************************************************************************)
EXTENDS Integers, Sequences, FiniteSets, TLC

\* Most cards (li elements) a result page holds.
MaxCards == 2
\* Longest posting sequence / existing-job index given to the dedup loop.
MaxJobs == 2
MaxExisting == 2

None == "None"

(***************************************************************************)
(* Python helpers                                                          *)
(***************************************************************************)

\* dict.get(key, default)
Get(d, key, default) == IF key \in DOMAIN d THEN d[key] ELSE default

\* dict.update(other): keys of other overwrite, the rest are kept.
Update(d, other) ==
    [key \in DOMAIN d \cup DOMAIN other |->
        IF key \in DOMAIN other THEN other[key] ELSE d[key]]

\* "+".join(list)
RECURSIVE JoinPlus(_)
JoinPlus(words) ==
    IF Len(words) = 0 THEN ""
    ELSE IF Len(words) = 1 THEN words[1]
    ELSE words[1] \o "+" \o JoinPlus(Tail(words))

\* str.strip() on the texts a card can show.
strip(text) ==
    CASE text = " Engineer " -> "Engineer"
      [] text = "engineer "  -> "engineer"
      [] OTHER               -> text

\* Texts a title element can show on a page.
CardTexts == {" Engineer ", "Engineer"}

\* The href of the n-th card of a result page.
CardLink(n) == "http://jobs/" \o ToString(n)

\* Exceptions a Selenium call can raise other than NoSuchElementException.
SeleniumErrors == {"WebDriverException"}

(***************************************************************************)
(* Configuration                                                           *)
(***************************************************************************)

\* load_config's template (lines 91-101).
Template ==
    [job_keywords |-> <<"Software Engineer", "Data Scientist">>,
     location     |-> "Remote",
     salary_range |-> "60000-80000",
     currency     |-> "USD",
     schedule     |-> None,
     notification |-> [email |-> None, slack_webhook |-> None]]

\* A user-edited configuration: no keywords, a daily schedule.
EditedConfig ==
    [job_keywords |-> <<>>,
     location     |-> "Hong Kong",
     salary_range |-> "60000-80000",
     currency     |-> "USD",
     schedule     |-> "daily 08:00",
     notification |-> [email |-> None, slack_webhook |-> None]]

\* What config.json can be when main starts: absent, JSON text, or text that
\* is not JSON.
Absent == [kind |-> "absent"]
Garbage == [kind |-> "garbage"]
JsonFile(value) == [kind |-> "json", value |-> value]
ConfigFiles == {Absent, Garbage, JsonFile(Template), JsonFile(EditedConfig)}

(***************************************************************************)
(* Scrapers                                                                *)
(***************************************************************************)

\* aggregate_jobs' list [scrape_linkedin, scrape_jobsdb, scrape_glassdoor].
Scrapers == <<"scrape_linkedin", "scrape_jobsdb", "scrape_glassdoor">>
NumScrapers == Len(Scrapers)

Website(s) ==
    CASE s = "scrape_linkedin"  -> "LinkedIn"
      [] s = "scrape_jobsdb"    -> "JobsDB"
      [] s = "scrape_glassdoor" -> "Glassdoor"

\* The url each scraper requests (lines 130-132, 164-166, 197-199).
ScraperUrl(s, cfg) ==
    LET keywords == JoinPlus(Get(cfg, "job_keywords", <<>>)) IN
    CASE s = "scrape_linkedin" ->
            "https://www.linkedin.com/jobs/search/?keywords=" \o keywords
            \o "&location=" \o Get(cfg, "location", "Remote")
            \o "&trk=public_jobs_jobs-search-bar_search-submit&position=1&pageNum=0"
      [] s = "scrape_jobsdb" ->
            "https://www.jobsdb.com/en-hk/jobs/" \o keywords \o "/"
            \o Get(cfg, "location", "")
      [] s = "scrape_glassdoor" ->
            "https://www.glassdoor.com/Job/jobs.htm?sc.keyword=" \o keywords
            \o "&locT=C&locId=&locKeyword=" \o Get(cfg, "location", "")

\* The dict a scraper builds from one card (lines 142-148).
MakeJob(s, title_text, href) ==
    [job_title    |-> strip(title_text),
     company_name |-> strip("Acme"),
     location     |-> strip("Remote"),
     source_link  |-> href,
     source       |-> Website(s)]

(***************************************************************************)
(* Enrichment and deduplication                                            *)
(***************************************************************************)

\* A lookup that also returns the company's name as the API spells it.
enrich_company_background_renaming(company_name) ==
    [company_name |-> "ACME Inc.",
     industry     |-> None,
     company_size |-> None,
     year_founded |-> None,
     notable_info |-> None]

enrich_company_background(company_name) ==
    [industry     |-> None,
     company_size |-> None,
     year_founded |-> None,
     notable_info |-> None]

benchmark_salary(job_title, location) ==
    [average_salary |-> None,
     comparison     |-> None]

\* str.strip().lower() on the texts a posting can hold.
normalised(text) ==
    CASE text = "Engineer"  -> "engineer"
      [] text = "Engineer " -> "engineer"
      [] OTHER              -> text

\* A comparison that ignores case and surrounding whitespace.
is_duplicate_normalised(job, existing) ==
    \E n \in 1..Len(existing) :
        /\ normalised(job["job_title"]) = normalised(existing[n]["job_title"])
        /\ normalised(job["company_name"]) = normalised(existing[n]["company_name"])
        /\ job["source_link"] = existing[n]["source_link"]

is_duplicate(job, existing) ==
    \E n \in 1..Len(existing) :
        /\ job["job_title"] = existing[n]["job_title"]
        /\ job["company_name"] = existing[n]["company_name"]
        /\ job["source_link"] = existing[n]["source_link"]

(***************************************************************************)
(* State                                                                   *)
(***************************************************************************)

VARIABLES
    config_file,    \* config.json on disk
    config_exists,  \* os.path.exists(config_path) as load_config saw it
    config,         \* main's config
    pc,             \* where the process is
    exit_code,      \* the process's exit status, -1 while it runs
    stdout,         \* what print wrote
    log,            \* job_aggregator.log: <<level, message>> lines
    scraper,        \* aggregate_jobs' position in its scraper list
    invoked,        \* how often each scraper was called
    returned,       \* what each scraper call ended with
    url,            \* the url the running scraper requested
    num_cards,      \* len(job_cards) of the running scraper
    card_no,        \* the card the running scraper's loop is at
    jobs,           \* the running scraper's jobs list
    all_jobs,       \* aggregate_jobs' all_jobs, then enrich_and_store_jobs' jobs
    k,              \* enrich_and_store_jobs' position in jobs
    existing_jobs,  \* enrich_and_store_jobs' existing_jobs
    enriched_jobs,  \* enrich_and_store_jobs' enriched_jobs
    lookups,        \* calls of enrich_company_background and benchmark_salary
    clock,          \* datetime.utcnow(), as a tick count
    sheet_batches,  \* the batches append_to_google_sheet was given
    d_jobs,         \* dedup loop alone: its jobs
    d_existing,     \* dedup loop alone: its existing_jobs
    d_k,            \* dedup loop alone: its position
    d_kept,         \* dedup loop alone: the postings it kept
    d_first,        \* dedup loop alone: the first pass's result
    d_pass          \* dedup loop alone: 1 or 2 while running, 3 when finished

run_vars ==
    <<config_file, config_exists, config, pc, exit_code, stdout, log, scraper,
      invoked, returned, url, num_cards, card_no, jobs, all_jobs, k, existing_jobs,
      enriched_jobs, lookups, clock, sheet_batches>>
dedup_vars == <<d_jobs, d_existing, d_k, d_kept, d_first, d_pass>>
vars == <<run_vars, dedup_vars>>

Pending == [status |-> "pending", jobs |-> <<>>, error |-> FALSE]

\* The process before main runs.
InitRun ==
    /\ config_exists = "unchecked"
    /\ config = None
    /\ pc = "main"
    /\ exit_code = -1
    /\ stdout = <<>>
    /\ log = <<>>
    /\ scraper = 1
    /\ invoked = [n \in 1..NumScrapers |-> 0]
    /\ returned = [n \in 1..NumScrapers |-> Pending]
    /\ url = None
    /\ num_cards = 0
    /\ card_no = 1
    /\ jobs = <<>>
    /\ all_jobs = <<>>
    /\ k = 1
    /\ existing_jobs = <<>>
    /\ enriched_jobs = <<>>
    /\ lookups = 0
    /\ clock = 0
    /\ sheet_batches = <<>>

InitDedupIdle ==
    /\ d_jobs = <<>>
    /\ d_existing = <<>>
    /\ d_k = 1
    /\ d_kept = <<>>
    /\ d_first = <<>>
    /\ d_pass = 3

Init ==
    /\ config_file \in ConfigFiles
    /\ InitRun
    /\ InitDedupIdle

Info(message) == <<"INFO", message>>
Error(message) == <<"ERROR", message>>

(***************************************************************************)
(* load_config and main                                                    *)
(***************************************************************************)

\* load_config without the sys.exit(0): it goes on to read the file it wrote.
LoadConfigMissingNoExit ==
    /\ pc = "main"
    /\ config_file = Absent
    /\ config_exists' = "false"
    /\ config_file' = JsonFile(Template)
    /\ stdout' = Append(stdout, "Config file created at config.json. Please edit it and re-run.")
    /\ config' = Template
    /\ pc' = "loaded"
    /\ UNCHANGED <<exit_code, log, scraper, invoked, returned, url, num_cards, card_no,
                   jobs, all_jobs, k, existing_jobs, enriched_jobs, lookups,
                   clock, sheet_batches, dedup_vars>>

\* load_config, file absent: write the template, print, sys.exit(0).
LoadConfigMissing ==
    /\ pc = "main"
    /\ config_file = Absent
    /\ config_exists' = "false"
    /\ config_file' = JsonFile(Template)
    /\ stdout' = Append(stdout, "Config file created at config.json. Please edit it and re-run.")
    /\ pc' = "exited"
    /\ exit_code' = 0
    /\ UNCHANGED <<config, log, scraper, invoked, returned, url, num_cards, card_no,
                   jobs, all_jobs, k, existing_jobs, enriched_jobs, lookups,
                   clock, sheet_batches, dedup_vars>>

\* load_config that answers a file it cannot parse with the template.
LoadConfigPresentWithFallback ==
    /\ pc = "main"
    /\ config_file # Absent
    /\ config_exists' = "true"
    /\ config' = IF config_file.kind = "json" THEN config_file.value ELSE Template
    /\ pc' = "loaded"
    /\ UNCHANGED <<config_file, exit_code, stdout, log, scraper, invoked,
                   returned, url, num_cards, card_no, jobs, all_jobs, k, existing_jobs,
                   enriched_jobs, lookups, clock, sheet_batches, dedup_vars>>

\* load_config, file present: json.load returns the value or raises
\* JSONDecodeError, which nothing catches.
LoadConfigPresent ==
    /\ pc = "main"
    /\ config_file # Absent
    /\ config_exists' = "true"
    /\ IF config_file.kind = "json"
       THEN /\ config' = config_file.value
            /\ pc' = "loaded"
            /\ exit_code' = exit_code
       ELSE /\ config' = config
            /\ pc' = "failed"
            /\ exit_code' = 1
    /\ UNCHANGED <<config_file, stdout, log, scraper, invoked, returned, url,
                   num_cards, card_no, jobs, all_jobs, k, existing_jobs, enriched_jobs,
                   lookups, clock, sheet_batches, dedup_vars>>

\* main after load_config: with a schedule, import schedule (which raises
\* when the package is not installed) and print; then call run_bot.
MainDispatch ==
    /\ pc = "loaded"
    /\ IF Get(config, "schedule", None) # None
       THEN \E installed \in BOOLEAN :
                IF installed
                THEN /\ stdout' = Append(stdout, "Scheduling not fully implemented. Running once for now.")
                     /\ pc' = "run_bot"
                     /\ exit_code' = exit_code
                ELSE /\ stdout' = stdout
                     /\ pc' = "failed"
                     /\ exit_code' = 1
       ELSE /\ stdout' = stdout
            /\ pc' = "run_bot"
            /\ exit_code' = exit_code
    /\ UNCHANGED <<config_file, config_exists, config, log, scraper, invoked,
                   returned, url, num_cards, card_no, jobs, all_jobs, k, existing_jobs,
                   enriched_jobs, lookups, clock, sheet_batches, dedup_vars>>

\* run_bot's first line and aggregate_jobs' entry.
RunBotStart ==
    /\ pc = "run_bot"
    /\ log' = Append(log, Info("Job Aggregator Bot started."))
    /\ all_jobs' = <<>>
    /\ scraper' = 1
    /\ pc' = "aggregate"
    /\ UNCHANGED <<config_file, config_exists, config, exit_code, stdout,
                   invoked, returned, url, num_cards, card_no, jobs, k, existing_jobs,
                   enriched_jobs, lookups, clock, sheet_batches, dedup_vars>>

(***************************************************************************)
(* aggregate_jobs and the scrapers                                         *)
(***************************************************************************)

Name == Scrapers[scraper]
Site == Website(Name)

AggFrame ==
    UNCHANGED <<config_file, config_exists, config, exit_code, stdout, k,
                existing_jobs, enriched_jobs, lookups, clock, sheet_batches,
                dedup_vars>>

\* aggregate_jobs calls the next scraper: its first log line, jobs = [], and
\* get_webdriver(), which is outside the scraper's try.  When it raises, the
\* exception reaches aggregate_jobs' except: logged, next scraper.
ScraperStart ==
    /\ pc = "aggregate"
    /\ scraper <= NumScrapers
    /\ invoked' = [invoked EXCEPT ![scraper] = @ + 1]
    /\ jobs' = <<>>
    /\ \/ /\ pc' = "scraper_try"
          /\ log' = Append(log, Info("Scraping " \o Site \o " for jobs..."))
          /\ UNCHANGED <<scraper, returned>>
       \/ \E e \in SeleniumErrors :
          /\ log' = log \o <<Info("Scraping " \o Site \o " for jobs..."),
                             Error("Error scraping: " \o Name \o ": " \o e)>>
          /\ returned' = [returned EXCEPT ![scraper] =
                            [status |-> "raised", jobs |-> <<>>, error |-> TRUE]]
          /\ scraper' = scraper + 1
          /\ pc' = "aggregate"
    /\ UNCHANGED <<url, num_cards, card_no, all_jobs>>
    /\ AggFrame

\* The scraper's try block up to the card loop: build the url, driver.get,
\* sleep, find_elements.  An exception goes to the scraper's own except.
ScraperLoadPage ==
    /\ pc = "scraper_try"
    /\ url' = ScraperUrl(Name, config)
    /\ \/ \E n \in 0..MaxCards :
          /\ num_cards' = n
          /\ pc' = "scraper_cards"
          /\ UNCHANGED <<log, returned>>
       \/ \E e \in SeleniumErrors :
          /\ log' = Append(log, Error(Site \o " scraping error: " \o e))
          /\ returned' = [returned EXCEPT ![scraper].error = TRUE]
          /\ pc' = "scraper_finally"
          /\ UNCHANGED num_cards
    /\ UNCHANGED <<scraper, invoked, card_no, jobs, all_jobs>>
    /\ AggFrame

\* One iteration of "for card in job_cards": the card yields a job, or lacks
\* an element (NoSuchElementException: continue), or a find_element /
\* get_attribute raises something else, which leaves the loop for the
\* scraper's except with jobs as collected so far.
ScraperCard ==
    /\ pc = "scraper_cards"
    /\ card_no <= num_cards
    /\ \/ \E text \in CardTexts :
          /\ jobs' = Append(jobs, MakeJob(Name, text, CardLink(card_no)))
          /\ card_no' = card_no + 1
          /\ UNCHANGED <<pc, log, returned>>
       \/ /\ card_no' = card_no + 1
          /\ UNCHANGED <<pc, log, returned, jobs>>
       \/ \E e \in SeleniumErrors :
          /\ log' = Append(log, Error(Site \o " scraping error: " \o e))
          /\ returned' = [returned EXCEPT ![scraper].error = TRUE]
          /\ pc' = "scraper_finally"
          /\ UNCHANGED <<card_no, jobs>>
    /\ UNCHANGED <<scraper, invoked, url, num_cards, all_jobs>>
    /\ AggFrame

\* The card loop ends normally.
ScraperCardsDone ==
    /\ pc = "scraper_cards"
    /\ card_no > num_cards
    /\ pc' = "scraper_finally"
    /\ UNCHANGED <<log, scraper, invoked, returned, url, num_cards, card_no, jobs, all_jobs>>
    /\ AggFrame

\* A scraper return whose jobs aggregate_jobs puts in front of all_jobs.
ScraperFinishPrepending ==
    /\ pc = "scraper_finally"
    /\ log' = Append(log, Info(Site \o ": " \o ToString(Len(jobs))
                                \o " jobs found before filtering."))
    /\ returned' = [returned EXCEPT ![scraper].status = "returned",
                                    ![scraper].jobs = jobs]
    /\ all_jobs' = jobs \o all_jobs
    /\ scraper' = scraper + 1
    /\ pc' = "aggregate"
    /\ url' = None
    /\ num_cards' = 0
    /\ card_no' = 1
    /\ jobs' = <<>>
    /\ UNCHANGED invoked
    /\ AggFrame

\* finally: driver.quit(); then the "found" log line and return jobs, which
\* aggregate_jobs extends all_jobs with.  When quit raises, the exception
\* reaches aggregate_jobs' except and the scraper's jobs are lost.  Either
\* way the scraper's locals are gone.
ScraperFinish ==
    /\ pc = "scraper_finally"
    /\ \/ /\ log' = Append(log, Info(Site \o ": " \o ToString(Len(jobs))
                                      \o " jobs found before filtering."))
          /\ returned' = [returned EXCEPT ![scraper].status = "returned",
                                          ![scraper].jobs = jobs]
          /\ all_jobs' = all_jobs \o jobs
       \/ \E e \in SeleniumErrors :
          /\ log' = Append(log, Error("Error scraping: " \o Name \o ": " \o e))
          /\ returned' = [returned EXCEPT ![scraper] =
                            [status |-> "raised", jobs |-> <<>>, error |-> TRUE]]
          /\ UNCHANGED all_jobs
    /\ scraper' = scraper + 1
    /\ pc' = "aggregate"
    /\ url' = None
    /\ num_cards' = 0
    /\ card_no' = 1
    /\ jobs' = <<>>
    /\ UNCHANGED invoked
    /\ AggFrame

\* aggregate_jobs returns; run_bot calls enrich_and_store_jobs(jobs, config).
AggregateReturn ==
    /\ pc = "aggregate"
    /\ scraper > NumScrapers
    /\ log' = Append(log, Info("Total jobs scraped: " \o ToString(Len(all_jobs))))
    /\ enriched_jobs' = <<>>
    /\ existing_jobs' = <<>>
    /\ k' = 1
    /\ pc' = "enrich"
    /\ UNCHANGED <<config_file, config_exists, config, exit_code, stdout,
                   scraper, invoked, returned, url, num_cards, card_no, jobs, all_jobs,
                   lookups, clock, sheet_batches, dedup_vars>>

(***************************************************************************)
(* enrich_and_store_jobs                                                   *)
(***************************************************************************)

EnrichFrame ==
    UNCHANGED <<config_file, config_exists, config, exit_code, stdout, scraper,
                invoked, returned, url, num_cards, card_no, jobs, dedup_vars>>

\* The job after both job.update calls and the timestamp (lines 282-288).
Enriched(job, now) ==
    LET company_info == enrich_company_background(Get(job, "company_name", ""))
        with_company == Update(job, company_info)
        salary_info  == benchmark_salary(Get(with_company, "job_title", ""),
                                         Get(with_company, "location", ""))
        with_salary  == Update(with_company, salary_info)
    IN  Update(with_salary, [scraped_at |-> now])

\* An iteration that adds each job it enriched to existing_jobs.
EnrichJobRemembering ==
    /\ pc = "enrich"
    /\ k <= Len(all_jobs)
    /\ IF is_duplicate(all_jobs[k], existing_jobs)
       THEN UNCHANGED <<all_jobs, enriched_jobs, existing_jobs, lookups, clock>>
       ELSE /\ all_jobs' = [all_jobs EXCEPT ![k] = Enriched(@, clock)]
            /\ enriched_jobs' = Append(enriched_jobs, Enriched(all_jobs[k], clock))
            /\ existing_jobs' = Append(existing_jobs, all_jobs[k])
            /\ lookups' = lookups + 2
            /\ clock' = clock + 1
    /\ k' = k + 1
    /\ UNCHANGED <<pc, log, sheet_batches>>
    /\ EnrichFrame

\* One iteration of "for job in jobs".  The job dict is changed in place, so
\* jobs and enriched_jobs hold the same changed dict.
EnrichJob ==
    /\ pc = "enrich"
    /\ k <= Len(all_jobs)
    /\ IF is_duplicate(all_jobs[k], existing_jobs)
       THEN UNCHANGED <<all_jobs, enriched_jobs, lookups, clock, log>>
       ELSE /\ all_jobs' = [all_jobs EXCEPT ![k] = Enriched(@, clock)]
            /\ enriched_jobs' = Append(enriched_jobs, Enriched(all_jobs[k], clock))
            /\ lookups' = lookups + 2
            /\ clock' = clock + 1
            /\ log' = log \o
                 <<Info("Enriching company background for "
                        \o Get(all_jobs[k], "company_name", "") \o "..."),
                   Info("Benchmarking salary for "
                        \o Get(all_jobs[k], "job_title", "") \o " in "
                        \o Get(all_jobs[k], "location", "") \o "...")>>
    /\ k' = k + 1
    /\ UNCHANGED <<pc, existing_jobs, sheet_batches>>
    /\ EnrichFrame

\* An append_to_google_sheet call that does not wait for the loop to end.
StoreJobsEarly ==
    /\ pc = "enrich"
    /\ sheet_batches' = Append(sheet_batches, enriched_jobs)
    /\ log' = log \o
         <<Info("Appending " \o ToString(Len(enriched_jobs)) \o " jobs to Google Sheet..."),
           Info("Enriched and stored " \o ToString(Len(enriched_jobs)) \o " new jobs.")>>
    /\ pc' = "stored"
    /\ UNCHANGED <<all_jobs, k, existing_jobs, enriched_jobs, lookups, clock>>
    /\ EnrichFrame

\* After the loop: append_to_google_sheet(enriched_jobs) and the last log
\* line of enrich_and_store_jobs.
StoreJobs ==
    /\ pc = "enrich"
    /\ k > Len(all_jobs)
    /\ sheet_batches' = Append(sheet_batches, enriched_jobs)
    /\ log' = log \o
         <<Info("Appending " \o ToString(Len(enriched_jobs)) \o " jobs to Google Sheet..."),
           Info("Enriched and stored " \o ToString(Len(enriched_jobs)) \o " new jobs.")>>
    /\ pc' = "stored"
    /\ UNCHANGED <<all_jobs, k, existing_jobs, enriched_jobs, lookups, clock>>
    /\ EnrichFrame

\* run_bot's last line; main returns and the process ends with status 0.
RunBotFinish ==
    /\ pc = "stored"
    /\ log' = Append(log, Info("Job Aggregator Bot finished."))
    /\ pc' = "done"
    /\ exit_code' = 0
    /\ UNCHANGED <<config_file, config_exists, config, stdout, scraper, invoked,
                   returned, url, num_cards, card_no, jobs, all_jobs, k, existing_jobs,
                   enriched_jobs, lookups, clock, sheet_batches, dedup_vars>>

Next ==
    \/ LoadConfigMissing
    \/ LoadConfigPresent
    \/ MainDispatch
    \/ RunBotStart
    \/ ScraperStart
    \/ ScraperLoadPage
    \/ ScraperCard
    \/ ScraperCardsDone
    \/ ScraperFinish
    \/ AggregateReturn
    \/ EnrichJob
    \/ StoreJobs
    \/ RunBotFinish

Spec == Init /\ [][Next]_vars

\* The single thread keeps running until the process ends.
FairSpec == Spec /\ WF_vars(Next)

(***************************************************************************)
(* The lookups as boundary calls that can raise.  enrich_and_store_jobs    *)
(* has no try around them: the exception leaves enrich_and_store_jobs,     *)
(* run_bot and main, and the process ends with status 1.  When the salary  *)
(* lookup raises, the company fields are already merged into the job.      *)
(***************************************************************************)

LookupRaises ==
    /\ pc = "enrich"
    /\ k <= Len(all_jobs)
    /\ ~is_duplicate(all_jobs[k], existing_jobs)
    /\ \/ /\ lookups' = lookups + 1
          /\ UNCHANGED all_jobs
       \/ /\ lookups' = lookups + 2
          /\ all_jobs' = [all_jobs EXCEPT ![k] =
                Update(@, enrich_company_background(Get(@, "company_name", "")))]
    /\ pc' = "failed"
    /\ exit_code' = 1
    /\ UNCHANGED <<config_file, config_exists, config, stdout, log, scraper,
                   invoked, returned, url, num_cards, card_no, jobs, k, existing_jobs,
                   enriched_jobs, clock, sheet_batches, dedup_vars>>

NextFault == Next \/ LookupRaises

SpecFault == Init /\ [][NextFault]_vars

(***************************************************************************)
(* The deduplication loop of enrich_and_store_jobs on its own: "for job in *)
(* jobs: if is_duplicate(job, existing_jobs): continue", for any jobs and  *)
(* any existing_jobs, run a second time on what the first run kept.        *)
(***************************************************************************)

Posting(title, link) ==
    [job_title    |-> title,
     company_name |-> "Acme",
     location     |-> "Remote",
     source_link  |-> link,
     source       |-> "LinkedIn"]

Postings ==
    {Posting("Engineer", "http://jobs/1"),
     Posting("engineer", "http://jobs/1"),
     Posting("Engineer ", "http://jobs/1"),
     Posting("Engineer", "http://jobs/2")}

SeqsUpTo(S, n) == UNION {[1..m -> S] : m \in 0..n}

InitDedup ==
    /\ config_file = Absent
    /\ InitRun
    /\ d_jobs \in SeqsUpTo(Postings, MaxJobs)
    /\ d_existing \in SeqsUpTo(Postings, MaxExisting)
    /\ d_k = 1
    /\ d_kept = <<>>
    /\ d_first = <<>>
    /\ d_pass = 1

\* The list the running pass iterates over.
DedupInput == IF d_pass = 1 THEN d_jobs ELSE d_first

\* A loop that removes duplicates from the list it iterates over: after a
\* removal the iterator steps over the following job, which stays.
DedupStepRemovingInPlace ==
    /\ d_pass \in {1, 2}
    /\ d_k <= Len(DedupInput)
    /\ IF is_duplicate(DedupInput[d_k], d_existing)
       THEN /\ d_kept' = IF d_k < Len(DedupInput)
                         THEN Append(d_kept, DedupInput[d_k + 1])
                         ELSE d_kept
            /\ d_k' = d_k + 2
       ELSE /\ d_kept' = Append(d_kept, DedupInput[d_k])
            /\ d_k' = d_k + 1
    /\ UNCHANGED <<d_jobs, d_existing, d_first, d_pass, run_vars>>

\* One iteration: a duplicate is skipped, any other job is kept.
DedupStep ==
    /\ d_pass \in {1, 2}
    /\ d_k <= Len(DedupInput)
    /\ d_kept' = IF is_duplicate(DedupInput[d_k], d_existing)
                 THEN d_kept
                 ELSE Append(d_kept, DedupInput[d_k])
    /\ d_k' = d_k + 1
    /\ UNCHANGED <<d_jobs, d_existing, d_first, d_pass, run_vars>>

\* The loop ends; what the first pass kept is the second pass's jobs.
DedupPassEnd ==
    /\ d_pass \in {1, 2}
    /\ d_k > Len(DedupInput)
    /\ IF d_pass = 1
       THEN /\ d_first' = d_kept
            /\ d_kept' = <<>>
            /\ d_k' = 1
       ELSE UNCHANGED <<d_first, d_kept, d_k>>
    /\ d_pass' = d_pass + 1
    /\ UNCHANGED <<d_jobs, d_existing, run_vars>>

NextDedup == DedupStep \/ DedupPassEnd

SpecDedup == InitDedup /\ [][NextDedup]_vars

(***************************************************************************)
(* Properties                                                              *)
(***************************************************************************)

\* The Runner's stage at each place of the process.
Stage ==
    CASE pc = "run_bot" -> "Idle"
      [] pc \in {"aggregate", "scraper_try", "scraper_cards", "scraper_finally"}
            -> "Aggregating"
      [] pc = "enrich" -> "Enriching"
      [] pc = "stored" -> "Persisting"
      [] pc = "done"   -> "Done"
      [] pc = "failed" -> "Failed"
      [] OTHER         -> "NotRunning"

\* What the first m scraper calls returned, in registration order.
RECURSIVE Outputs(_)
Outputs(m) == IF m = 0 THEN <<>> ELSE Outputs(m - 1) \o returned[m].jobs

\* A scraper failed: it raised, or it hit an error while scraping.
Failed(n) == returned[n].status = "raised" \/ returned[n].error

\* What the first m scraper calls returned, the failed ones left out.
RECURSIVE OutputsOfUnfailed(_)
OutputsOfUnfailed(m) ==
    IF m = 0 THEN <<>>
    ELSE OutputsOfUnfailed(m - 1) \o (IF Failed(m) THEN <<>> ELSE returned[m].jobs)

NoCalls ==
    /\ \A n \in 1..NumScrapers : invoked[n] = 0
    /\ lookups = 0
    /\ sheet_batches = <<>>

Triple(job) == <<job["job_title"], job["company_name"], job["source_link"]>>
Identity(job) == <<job["job_title"], job["company_name"], job["source_link"], job["source"]>>

EnrichmentKeys ==
    {"industry", "company_size", "year_founded", "notable_info",
     "average_salary", "comparison"}

\* C1: a scraper's failure never aborts the run, and while aggregate_jobs
\* runs and when it returns all_jobs is the concatenation of the outputs of
\* the scrapers that did not fail (a failed scraper contributes nothing).
C1_FailedScraperContributesNothing ==
    /\ (\E n \in 1..NumScrapers : Failed(n)) => pc # "failed"
    /\ pc = "aggregate" => all_jobs = OutputsOfUnfailed(scraper - 1)

\* C2: every scraper is called exactly once, in registration order, and what
\* aggregate_jobs returns is the scrapers' outputs in registration order,
\* each in its own order (so empty when every output is empty).
C2_EachScraperOnceInOrder ==
    /\ \A n \in 1..NumScrapers : invoked[n] <= 1
    /\ \A n \in 2..NumScrapers : invoked[n] = 1 => returned[n - 1].status # "pending"
    /\ pc = "aggregate" =>
          /\ \A n \in 1..NumScrapers :
                (n < scraper) <=> (invoked[n] = 1 /\ returned[n].status # "pending")
          /\ all_jobs = Outputs(scraper - 1)
    /\ Stage \in {"Enriching", "Persisting", "Done"} =>
          /\ \A n \in 1..NumScrapers : invoked[n] = 1
          /\ Len(all_jobs) = Len(Outputs(NumScrapers))

C2_Witness ==
    /\ pc = "aggregate"
    /\ scraper > NumScrapers
    /\ config["job_keywords"] = <<>>
    /\ Len(returned[1].jobs) = 2
    /\ returned[1].jobs[1]["source_link"] = "http://jobs/1"
    /\ returned[1].jobs[2]["source_link"] = "http://jobs/2"
    /\ returned[2].status = "raised"
    /\ Len(returned[3].jobs) = 1
    /\ Len(all_jobs) = 3

\* C3: the dedup loop keeps a posting iff no entry of existing_jobs has the
\* same (job_title, company_name, source_link), compared as exact strings,
\* and keeps the postings in their input order.
C3_DedupKeepsExactlyTheNew ==
    d_pass = 1 =>
        d_kept = SelectSeq(SubSeq(d_jobs, 1, d_k - 1),
                           LAMBDA job : Triple(job) \notin
                               {Triple(d_existing[n]) : n \in 1..Len(d_existing)})

C3_Witness ==
    /\ d_pass = 1
    /\ d_k > Len(d_jobs)
    /\ d_jobs = <<Posting("Engineer", "http://jobs/1"),
                  Posting("engineer", "http://jobs/1")>>
    /\ d_existing = <<Posting("engineer", "http://jobs/1")>>
    /\ d_kept = <<Posting("Engineer", "http://jobs/1")>>

\* C4: the dedup loop run on its own output removes nothing further.
C4_DedupIdempotent ==
    d_pass = 3 => d_kept = d_first

C4_Witness ==
    /\ d_pass = 3
    /\ Len(d_jobs) = 2
    /\ Len(d_first) = 1
    /\ d_kept = d_first

\* C5: a lookup's failure stops neither the other lookup nor the enrichment
\* of the remaining postings, and the sink's batch holds every posting that
\* survived deduplication, each with a scraped_at timestamp.
C5_EnricherTotalAndFaultIsolated ==
    /\ lookups % 2 = 0
    /\ lookups > 0 => pc # "failed"
    /\ Stage \in {"Persisting", "Done"} =>
          /\ Len(sheet_batches) = 1
          /\ Len(sheet_batches[1]) =
                Len(SelectSeq(all_jobs, LAMBDA job : ~is_duplicate(job, existing_jobs)))
          /\ \A n \in 1..Len(sheet_batches[1]) :
                "scraped_at" \in DOMAIN sheet_batches[1][n]

\* C6: with no config file, load_config writes the template, the process
\* exits with status 0, and no scraper, lookup or sink call happens.
C6_FirstRunSafety ==
    /\ config_file = Absent => pc = "main"
    /\ config_exists = "false" =>
          /\ pc = "exited"
          /\ exit_code = 0
          /\ config_file = JsonFile(Template)
          /\ DOMAIN config_file.value =
                {"job_keywords", "location", "salary_range", "currency",
                 "schedule", "notification"}
          /\ DOMAIN config_file.value["notification"] = {"email", "slack_webhook"}
          /\ NoCalls

C6_Witness ==
    /\ config_exists = "false"
    /\ pc = "exited"
    /\ config_file = JsonFile(Template)

\* C7: with a config file that is not JSON, the run ends Failed with a
\* non-zero exit status, and no scraper, lookup or sink call happens.
C7_MalformedConfigFailsFast ==
    config_file = Garbage =>
        /\ NoCalls
        /\ pc \in {"main", "failed"}
        /\ pc = "failed" => exit_code > 0
        /\ Stage \in {"NotRunning", "Failed"}

C7_Witness ==
    /\ config_file = Garbage
    /\ pc = "failed"
    /\ exit_code = 1

\* The stage changes a run may make.
StageSteps ==
    {<<"NotRunning", "Idle">>, <<"NotRunning", "Failed">>,
     <<"Idle", "Aggregating">>, <<"Aggregating", "Enriching">>,
     <<"Enriching", "Persisting">>, <<"Persisting", "Done">>}

\* Lookups only after aggregation; one sink call, after the loop, with every
\* surviving posting enriched and stamped.
C8_StateInv ==
    /\ lookups > 0 =>
          /\ Stage \in {"Enriching", "Persisting", "Done"}
          /\ \A n \in 1..NumScrapers : returned[n].status # "pending"
    /\ Len(sheet_batches) <= 1
    /\ sheet_batches # <<>> =>
          /\ Stage \in {"Persisting", "Done"}
          /\ k > Len(all_jobs)
          /\ sheet_batches[1] = enriched_jobs
          /\ \A n \in 1..Len(all_jobs) :
                ~is_duplicate(all_jobs[n], existing_jobs) =>
                    /\ EnrichmentKeys \cup {"scraped_at"} \subseteq DOMAIN all_jobs[n]
                    /\ \E m \in 1..Len(sheet_batches[1]) :
                          sheet_batches[1][m] = all_jobs[n]
    /\ Stage \in {"Persisting", "Done"} => Len(sheet_batches) = 1

\* Stages only move forward, and nothing changes a posting after the sink call.
C8_Step ==
    /\ Stage' # Stage => <<Stage, Stage'>> \in StageSteps
    /\ sheet_batches # <<>> =>
          /\ sheet_batches' = sheet_batches
          /\ all_jobs' = all_jobs
          /\ enriched_jobs' = enriched_jobs

\* C8: once run_bot is called the stages follow Idle, Aggregating,
\* Enriching, Persisting, Done, each entered at most once; no lookup runs
\* before all three scrapers have ended; the sink is called once, after
\* every posting is enriched and stamped; nothing changes a posting after
\* that call; and the run reaches Done.
C8_SequentialSinglePass ==
    /\ []C8_StateInv
    /\ [][C8_Step]_vars
    /\ (Stage = "Idle") ~> (Stage = "Done")

C8_Witness ==
    /\ Stage = "Done"
    /\ Len(sheet_batches) = 1
    /\ Len(sheet_batches[1]) = 3
    /\ lookups = 6

\* C9: merging the lookup results leaves job_title, company_name,
\* source_link and source of every posting as the scraper set them.
C9_IdentityKept ==
    Stage \in {"Enriching", "Persisting", "Done"} =>
        /\ Len(all_jobs) = Len(Outputs(NumScrapers))
        /\ \A n \in 1..Len(all_jobs) :
              Identity(all_jobs[n]) = Identity(Outputs(NumScrapers)[n])
        /\ \A n \in 1..Len(enriched_jobs) :
              \E m \in 1..Len(all_jobs) :
                  /\ enriched_jobs[n] = all_jobs[m]
                  /\ Identity(enriched_jobs[n]) = Identity(Outputs(NumScrapers)[m])
        /\ \A b \in 1..Len(sheet_batches) : sheet_batches[b] = enriched_jobs

C9_Witness ==
    /\ Stage = "Persisting"
    /\ Len(sheet_batches[1]) = 2
    /\ EnrichmentKeys \subseteq DOMAIN sheet_batches[1][2]
    /\ sheet_batches[1][2]["company_name"] = "Acme"

\* C10: existing_jobs stays as it was when enrich_and_store_jobs began, so
\* postings of one batch with the same (job_title, company_name,
\* source_link) are all enriched and all passed to the sink.
C10_IndexFixedDuringRun ==
    /\ Stage \in {"Enriching", "Persisting", "Done"} => existing_jobs = <<>>
    /\ Stage \in {"Persisting", "Done"} =>
          \A n, m \in 1..Len(all_jobs) :
              (n < m /\ Triple(all_jobs[n]) = Triple(all_jobs[m])) =>
                  /\ "scraped_at" \in DOMAIN all_jobs[n]
                  /\ "scraped_at" \in DOMAIN all_jobs[m]
                  /\ \E a, b \in 1..Len(sheet_batches[1]) :
                        /\ a < b
                        /\ sheet_batches[1][a] = all_jobs[n]
                        /\ sheet_batches[1][b] = all_jobs[m]

C10_Witness ==
    /\ Stage = "Persisting"
    /\ Len(all_jobs) = 2
    /\ Triple(all_jobs[1]) = Triple(all_jobs[2])
    /\ all_jobs[1]["source"] = "LinkedIn"
    /\ all_jobs[2]["source"] = "Glassdoor"
    /\ sheet_batches = <<all_jobs>>

====
